---- MODULE Spec2Model ----
(***************************************************************************)
(* AADIS: document ingestion, two similarity collections with an          *)
(* in-process document registry (knowledge_base.py), the ingestion        *)
(* pipeline (my_doc_agents.py), the question-answering pipeline           *)
(* (my_qa_agents.py) and the HTTP handlers that drive them (main.py).     *)
(*                                                                         *)
(* Text is a sequence of one-character strings, so that str.split() and   *)
(* " ".join() are computed.  Table cells, error messages and the          *)
(* provenance labels are strings.  A filename is the sequence of its      *)
(* '.'-separated parts: <<"report", "PDF">> is "report.PDF".              *)
(***************************************************************************)
EXTENDS Integers, Sequences, FiniteSets, TLC

VARIABLES
    text_collection,   \* KnowledgeBase.text_collection: the set of its entries
    table_collection,  \* KnowledgeBase.table_collection: the set of its entries
    documents,         \* KnowledgeBase.documents: doc_id -> metadata
    usedIds,           \* the document ids that exist so far (uuid4 never repeats one)
    deleted,           \* history: the ids for which delete_document has returned normally
    upload,            \* the upload_documents request in flight, if any
    temp_files,        \* the temporary files that exist on disk
    del,               \* a delete_document call in flight, storage step by storage step
    response           \* what the most recently completed call returned or raised

vars == <<text_collection, table_collection, documents, usedIds, deleted,
          upload, temp_files, del, response>>

----------------------------------------------------------------------------
(* Bounds of the model. *)

MaxDocs == 2
MaxFiles == 2
MaxTextLen == 5
MaxChunkSize == 4
MaxRows == 5

(* Constants of the program. *)

DefaultChunkSize == 500
TextLimit == 5
TableLimit == 3
TopTexts == 3
TopTables == 2
SampleRowEnd == 4

Ids == 1..MaxDocs

(* uuid.uuid4(): an id no document has had.  Ids are opaque, so the model *)
(* hands out the least one not yet in use.                                *)
Uuid4(used) == {i \in (Ids \ used) : \A j \in (Ids \ used) : i <= j}

Min(a, b) == IF a < b THEN a ELSE b

----------------------------------------------------------------------------
(* Strings as character sequences: str.split() and str.join(). *)

IsSpace(c) == c \in {" ", "\n", "\t"}

RECURSIVE SplitFrom(_, _, _)
SplitFrom(text, i, cur) ==
    IF i > Len(text)
    THEN IF cur = <<>> THEN <<>> ELSE <<cur>>
    ELSE IF IsSpace(text[i])
         THEN IF cur = <<>>
              THEN SplitFrom(text, i + 1, <<>>)
              ELSE <<cur>> \o SplitFrom(text, i + 1, <<>>)
         ELSE SplitFrom(text, i + 1, Append(cur, text[i]))

Split(text) == SplitFrom(text, 1, <<>>)

RECURSIVE JoinWords(_)
JoinWords(words) ==
    IF words = <<>> THEN <<>>
    ELSE IF Len(words) = 1 THEN words[1]
    ELSE words[1] \o <<" ">> \o JoinWords(Tail(words))

RECURSIVE JoinStr(_, _)
JoinStr(parts, sep) ==
    IF parts = <<>> THEN ""
    ELSE IF Len(parts) = 1 THEN parts[1]
    ELSE parts[1] \o sep \o JoinStr(Tail(parts), sep)

----------------------------------------------------------------------------
(* DocumentProcessingCrew._chunk_text *)

(* _chunk_text without the flush of the remainder after the loop. *)
RECURSIVE ChunkLoop_NoFlush(_, _, _, _, _)
ChunkLoop_NoFlush(words, chunks, current_chunk, current_size, chunk_size) ==
    IF words = <<>>
    THEN chunks
    ELSE LET chunk == Append(current_chunk, Head(words))
             size  == current_size + Len(Head(words)) + 1
         IN  IF size >= chunk_size
             THEN ChunkLoop_NoFlush(Tail(words), Append(chunks, JoinWords(chunk)),
                                    <<>>, 0, chunk_size)
             ELSE ChunkLoop_NoFlush(Tail(words), chunks, chunk, size, chunk_size)

(* _chunk_text counting two separators per word. *)
RECURSIVE ChunkLoop_TwoSeparators(_, _, _, _, _)
ChunkLoop_TwoSeparators(words, chunks, current_chunk, current_size, chunk_size) ==
    IF words = <<>>
    THEN IF current_chunk # <<>>
         THEN Append(chunks, JoinWords(current_chunk))
         ELSE chunks
    ELSE LET chunk == Append(current_chunk, Head(words))
             size  == current_size + Len(Head(words)) + 2
         IN  IF size >= chunk_size
             THEN ChunkLoop_TwoSeparators(Tail(words),
                                          Append(chunks, JoinWords(chunk)),
                                          <<>>, 0, chunk_size)
             ELSE ChunkLoop_TwoSeparators(Tail(words), chunks, chunk, size,
                                          chunk_size)

RECURSIVE ChunkLoop(_, _, _, _, _)
ChunkLoop(words, chunks, current_chunk, current_size, chunk_size) ==
    IF words = <<>>
    THEN IF current_chunk # <<>>
         THEN Append(chunks, JoinWords(current_chunk))
         ELSE chunks
    ELSE LET chunk == Append(current_chunk, Head(words))
             size  == current_size + Len(Head(words)) + 1
         IN  IF size >= chunk_size
             THEN ChunkLoop(Tail(words), Append(chunks, JoinWords(chunk)),
                            <<>>, 0, chunk_size)
             ELSE ChunkLoop(Tail(words), chunks, chunk, size, chunk_size)

ChunkText(text, chunk_size) == ChunkLoop(Split(text), <<>>, <<>>, 0, chunk_size)

----------------------------------------------------------------------------
(* KnowledgeBase._table_to_text.  A table is a record; it has an "error"  *)
(* field, or a "data" field holding a grid of cells.                      *)

(* _table_to_text without the cut after the fourth row. *)
TableToTextParts_AllRows(table) ==
    IF "data" \in DOMAIN table /\ table.data # <<>>
    THEN LET data == table.data
         IN  <<"Table headers: " \o JoinStr(data[1], " | ")>>
             \o [i \in 1..(Len(data) - 1) |-> JoinStr(data[i + 1], " | ")]
    ELSE <<>>

TableToTextParts(table) ==
    IF "data" \in DOMAIN table /\ table.data # <<>>
    THEN LET data == table.data
             last == Min(SampleRowEnd, Len(data))
         IN  <<"Table headers: " \o JoinStr(data[1], " | ")>>
             \o [i \in 1..(last - 1) |-> JoinStr(data[i + 1], " | ")]
    ELSE <<>>

TableToText(table) ==
    IF "error" \in DOMAIN table
    THEN table.error
    ELSE JoinStr(TableToTextParts(table), "\n")

(* json.dumps / json.loads of a table: the serialized form is a value of  *)
(* its own kind, which only json.loads turns back into a table.           *)
JsonDumps(table) == [json |-> table]
JsonDecodable(s) == DOMAIN s = {"json"}
JsonLoads(s) == s.json

----------------------------------------------------------------------------
(* The similarity backend (chromadb collections): add, get(where), delete *)
(* and query.  An entry is [id, document, metadata].                      *)

CollectionAdd(coll, entries) == coll \cup entries

(* get() with the where filter lost: the ids of every entry. *)
CollectionGet_NoFilter(coll, doc_id) == {e.id : e \in coll}

CollectionGet(coll, doc_id) ==
    {e.id : e \in {x \in coll : x.metadata.document_id = doc_id}}

(* delete() that clears the metadata of the entries instead of removing   *)
(* them: what a reader would see of a deletion that is not atomic.        *)
CollectionDelete_ClearsMetadata(coll, ids) ==
    {IF e.id \in ids THEN [e EXCEPT !.metadata.filename = <<>>] ELSE e : e \in coll}

CollectionDelete(coll, ids) == {e \in coll : e.id \notin ids}

(* query(query_texts, n_results): the call raises, or returns the         *)
(* min(n_results, count) entries nearest to the query, nearest first.     *)
(* The embedding distance is the backend's: the model has two queries,    *)
(* one nearest to the entries of the oldest document and one nearest to   *)
(* those of the newest.                                                   *)
Queries == {"oldest", "newest"}

Nearer(query, a, b) ==
    IF query = "oldest"
    THEN a[1] < b[1] \/ (a[1] = b[1] /\ a[3] < b[3])
    ELSE a[1] > b[1] \/ (a[1] = b[1] /\ a[3] > b[3])

RECURSIVE Ranked(_, _)
Ranked(query, S) ==
    IF S = {} THEN <<>>
    ELSE LET first == CHOOSE e \in S : \A o \in S \ {e} : Nearer(query, e.id, o.id)
         IN  <<first>> \o Ranked(query, S \ {first})

CollectionQuery(coll, query, n_results) ==
    SubSeq(Ranked(query, coll), 1, Min(n_results, Cardinality(coll)))

(* What a query call comes to: it raises (backend_ok is false) or returns *)
(* its hits.                                                              *)
QueryOutcome(coll, query, n_results, backend_ok) ==
    IF backend_ok
    THEN [ok |-> TRUE, hits |-> CollectionQuery(coll, query, n_results)]
    ELSE [ok |-> FALSE, hits |-> <<>>]

----------------------------------------------------------------------------
(* KnowledgeBase.  Its operations are functions of kb, the record of the  *)
(* two collections and the registry, and return the new kb together with  *)
(* what the call returned or raised.  A backend call that raises is taken *)
(* to have changed nothing.                                               *)

KB == [text |-> text_collection, table |-> table_collection, docs |-> documents]

TextEntries(doc_id, filename, chunks) ==
    {[id       |-> <<doc_id, "text", i - 1>>,
      document |-> chunks[i],
      metadata |-> [document_id |-> doc_id, filename |-> filename,
                    chunk_index |-> i - 1, type |-> "text"]] :
       i \in 1..Len(chunks)}

TableEntries(doc_id, filename, tables) ==
    {[id       |-> <<doc_id, "table", i - 1>>,
      document |-> TableToText(tables[i]),
      metadata |-> [document_id |-> doc_id, filename |-> filename,
                    table_index |-> i - 1, type |-> "table",
                    table_data |-> JsonDumps(tables[i])]] :
       i \in 1..Len(tables)}

DocMetadata(filename, data) ==
    [filename    |-> filename,
     text_chunks |-> Len(data.text_chunks),
     tables      |-> Len(data.tables),
     created_at  |-> "uuid4"]

(* The backend calls store_document makes, in order; fail names the one   *)
(* that raises, if any.                                                   *)
StoreFailures == {"none", "text_add", "table_add"}

StoreDocument(kb, doc_id, filename, data, fail) ==
    LET has_text   == data.text_chunks # <<>>
        has_tables == data.tables # <<>>
        text_fails == has_text /\ fail = "text_add"
        tbl_fails  == ~text_fails /\ has_tables /\ fail = "table_add"
        text1  == IF has_text /\ ~text_fails
                  THEN CollectionAdd(kb.text,
                                     TextEntries(doc_id, filename, data.text_chunks))
                  ELSE kb.text
        table1 == IF has_tables /\ ~text_fails /\ ~tbl_fails
                  THEN CollectionAdd(kb.table,
                                     TableEntries(doc_id, filename, data.tables))
                  ELSE kb.table
        raised == text_fails \/ tbl_fails
        docs1  == IF raised THEN kb.docs
                  ELSE [d \in DOMAIN kb.docs \cup {doc_id} |->
                          IF d = doc_id THEN DocMetadata(filename, data)
                          ELSE kb.docs[d]]
    IN  [kb     |-> [text |-> text1, table |-> table1, docs |-> docs1],
         raised |-> raised,
         error  |-> IF raised THEN fail \o " failed" ELSE "",
         doc_id |-> doc_id]

(* search_text / search_tables on what the backend's query returned.      *)

TextResult(hit, i) ==
    [content     |-> hit.document,
     filename    |-> hit.metadata.filename,
     chunk_index |-> hit.metadata.chunk_index,
     score       |-> i]

TableResult(hit, i) ==
    [description |-> hit.document,
     filename    |-> hit.metadata.filename,
     table_index |-> hit.metadata.table_index,
     data        |-> JsonLoads(hit.metadata.table_data),
     score       |-> i]

TextHitReadable(hit) ==
    {"filename", "chunk_index"} \subseteq DOMAIN hit.metadata

TableHitReadable(hit) ==
    /\ {"filename", "table_index", "table_data"} \subseteq DOMAIN hit.metadata
    /\ JsonDecodable(hit.metadata.table_data)

(* search_text without its except clause. *)
SearchText_Propagates(outcome) ==
    IF outcome.ok
    THEN [raised |-> FALSE,
          value  |-> [i \in 1..Len(outcome.hits) |-> TextResult(outcome.hits[i], i)]]
    ELSE [raised |-> TRUE, value |-> <<>>]

(* Both searches catch every exception and return the empty list: they  *)
(* never raise.  The result is [raised, value] so that a caller's         *)
(* handling of a raising search is stated too.                            *)
SearchText(outcome) ==
    IF outcome.ok /\ \A i \in 1..Len(outcome.hits) : TextHitReadable(outcome.hits[i])
    THEN [raised |-> FALSE,
          value  |-> [i \in 1..Len(outcome.hits) |-> TextResult(outcome.hits[i], i)]]
    ELSE [raised |-> FALSE, value |-> <<>>]

SearchTables(outcome) ==
    IF outcome.ok /\ \A i \in 1..Len(outcome.hits) : TableHitReadable(outcome.hits[i])
    THEN [raised |-> FALSE,
          value  |-> [i \in 1..Len(outcome.hits) |-> TableResult(outcome.hits[i], i)]]
    ELSE [raised |-> FALSE, value |-> <<>>]

(* list_documents: the registry's values. *)
RECURSIVE ListValues(_, _)
ListValues(docs, ids) ==
    IF ids = {} THEN <<>>
    ELSE LET d == CHOOSE x \in ids : \A y \in ids : x <= y
         IN  <<docs[d]>> \o ListValues(docs, ids \ {d})

ListDocuments(docs) == ListValues(docs, DOMAIN docs)

(* The backend calls delete_document makes, in order; fail names the one  *)
(* that raises, if any.  A delete call is made only for a non-empty id    *)
(* list.                                                                  *)
DeleteFailures == {"none", "text_get", "text_delete", "table_get", "table_delete"}

(* delete_document without its table step. *)
DeleteDocument_KeepsTables(kb, doc_id, fail) ==
    LET text_ids == CollectionGet(kb.text, doc_id)
        raised   == fail = "text_get" \/ (text_ids # {} /\ fail = "text_delete")
    IN  [kb     |-> [text  |-> IF raised THEN kb.text
                               ELSE CollectionDelete(kb.text, text_ids),
                     table |-> kb.table,
                     docs  |-> IF raised THEN kb.docs
                               ELSE [d \in DOMAIN kb.docs \ {doc_id} |-> kb.docs[d]]],
         raised |-> raised,
         error  |-> IF raised THEN "Error deleting document: " \o fail \o " failed"
                    ELSE ""]

(* delete_document removing the registry entry before the backend calls. *)
DeleteDocument_UnregistersFirst(kb, doc_id, fail) ==
    LET text_ids  == CollectionGet(kb.text, doc_id)
        table_ids == CollectionGet(kb.table, doc_id)
        text_fails == fail = "text_get" \/ (text_ids # {} /\ fail = "text_delete")
        tbl_fails  == /\ ~text_fails
                      /\ fail = "table_get" \/ (table_ids # {} /\ fail = "table_delete")
        raised == text_fails \/ tbl_fails
    IN  [kb     |-> [text  |-> IF text_fails THEN kb.text
                               ELSE CollectionDelete(kb.text, text_ids),
                     table |-> IF raised THEN kb.table
                               ELSE CollectionDelete(kb.table, table_ids),
                     docs  |-> [d \in DOMAIN kb.docs \ {doc_id} |-> kb.docs[d]]],
         raised |-> raised,
         error  |-> IF raised THEN "Error deleting document: " \o fail \o " failed"
                    ELSE ""]

(* delete_document removing the registry entry without looking whether it *)
(* is there: the del statement raises KeyError for an id the registry     *)
(* does not hold.                                                         *)
DeleteDocument_NoRegistryGuard(kb, doc_id, fail) ==
    LET text_ids  == CollectionGet(kb.text, doc_id)
        table_ids == CollectionGet(kb.table, doc_id)
        text_fails == fail = "text_get" \/ (text_ids # {} /\ fail = "text_delete")
        tbl_fails  == /\ ~text_fails
                      /\ fail = "table_get" \/ (table_ids # {} /\ fail = "table_delete")
        key_error  == ~text_fails /\ ~tbl_fails /\ doc_id \notin DOMAIN kb.docs
        raised == text_fails \/ tbl_fails \/ key_error
    IN  [kb     |-> [text  |-> IF text_fails THEN kb.text
                               ELSE CollectionDelete(kb.text, text_ids),
                     table |-> IF text_fails \/ tbl_fails THEN kb.table
                               ELSE CollectionDelete(kb.table, table_ids),
                     docs  |-> IF raised THEN kb.docs
                               ELSE [d \in DOMAIN kb.docs \ {doc_id} |-> kb.docs[d]]],
         raised |-> raised,
         error  |-> IF key_error THEN "Error deleting document: KeyError"
                    ELSE IF raised
                    THEN "Error deleting document: " \o fail \o " failed"
                    ELSE ""]

DeleteDocument(kb, doc_id, fail) ==
    LET text_ids  == CollectionGet(kb.text, doc_id)
        table_ids == CollectionGet(kb.table, doc_id)
        text_fails == fail = "text_get" \/ (text_ids # {} /\ fail = "text_delete")
        tbl_fails  == /\ ~text_fails
                      /\ fail = "table_get" \/ (table_ids # {} /\ fail = "table_delete")
        raised == text_fails \/ tbl_fails
        text1  == IF text_fails THEN kb.text ELSE CollectionDelete(kb.text, text_ids)
        table1 == IF raised THEN kb.table ELSE CollectionDelete(kb.table, table_ids)
        docs1  == IF raised THEN kb.docs
                  ELSE [d \in DOMAIN kb.docs \ {doc_id} |-> kb.docs[d]]
    IN  [kb     |-> [text |-> text1, table |-> table1, docs |-> docs1],
         raised |-> raised,
         error  |-> IF raised THEN "Error deleting document: " \o fail \o " failed"
                    ELSE ""]

----------------------------------------------------------------------------
(* DocumentParsingTools and DocumentProcessingCrew.process_document.      *)
(* An uploaded file is [filename, paragraphs, grids, readable]: the text  *)
(* of its pages or paragraphs and the cell grids of its tables, as the    *)
(* parsing library hands them over, and whether the library can open it.  *)

Lower(part) ==
    CASE part = "PDF"  -> "pdf"
      [] part = "Docx" -> "docx"
      [] part = "TXT"  -> "txt"
      [] OTHER         -> part

FileExtension(filename) == Lower(filename[Len(filename)])

RECURSIVE Lines(_)
Lines(paragraphs) ==
    IF paragraphs = <<>> THEN <<>>
    ELSE Head(paragraphs) \o <<"\n">> \o Lines(Tail(paragraphs))

ErrorReading == <<"E", "r", "r", "o", "r", " ", "r", "e", "a", "d", "i", "n", "g">>

ExtractTextFromPdf(file) ==
    IF file.readable THEN Lines(file.paragraphs)
    ELSE ErrorReading \o <<" ", "P", "D", "F", ":", " ", "?">>

ExtractTextFromDocx(file) ==
    IF file.readable THEN Lines(file.paragraphs)
    ELSE ErrorReading \o <<" ", "D", "O", "C", "X", ":", " ", "?">>

ExtractedTable(i, grid) ==
    [table_id |-> i, data |-> grid, rows |-> Len(grid),
     columns  |-> IF grid # <<>> THEN Len(grid[1]) ELSE 0]

ExtractTablesFromDocx(file) ==
    IF file.readable
    THEN [i \in 1..Len(file.grids) |-> ExtractedTable(i - 1, file.grids[i])]
    ELSE <<[error |-> "Error extracting tables: ?"]>>

(* process_document running the crew before it looks at the extension. *)
ProcessDocument_OracleFirst(file, oracle_ok) ==
    LET file_extension == FileExtension(file.filename)
    IN  IF ~oracle_ok
        THEN [raised |-> TRUE, oracle_calls |-> 1, error |-> "oracle failed"]
        ELSE IF file_extension \notin {"pdf", "docx"}
        THEN [raised |-> TRUE, oracle_calls |-> 1,
              error  |-> "Unsupported file format: " \o file_extension]
        ELSE [raised |-> FALSE, oracle_calls |-> 1, error |-> "",
              data   |-> [filename       |-> file.filename,
                          text_chunks    |-> ChunkText(Lines(file.paragraphs),
                                                       DefaultChunkSize),
                          tables         |-> IF file_extension = "pdf" THEN <<>>
                                             ELSE ExtractTablesFromDocx(file),
                          raw_text       |-> Lines(file.paragraphs),
                          agent_analysis |-> "analysis"]]

(* oracle_ok: whether crew.kickoff(), the call of the reasoning oracle,   *)
(* returns.  oracle_calls counts the kickoff calls made.                  *)
ProcessDocument(file, oracle_ok) ==
    LET filename == file.filename
        file_extension == FileExtension(filename)
        supported == file_extension \in {"pdf", "docx"}
        raw_text == IF file_extension = "pdf" THEN ExtractTextFromPdf(file)
                    ELSE ExtractTextFromDocx(file)
        tables   == IF file_extension = "pdf" THEN <<>>
                    ELSE ExtractTablesFromDocx(file)
    IN  IF ~supported
        THEN [raised |-> TRUE, oracle_calls |-> 0,
              error  |-> "Unsupported file format: " \o file_extension]
        ELSE IF ~oracle_ok
        THEN [raised |-> TRUE, oracle_calls |-> 1, error |-> "oracle failed"]
        ELSE [raised |-> FALSE, oracle_calls |-> 1, error |-> "",
              data   |-> [filename       |-> filename,
                          text_chunks    |-> ChunkText(raw_text, DefaultChunkSize),
                          tables         |-> tables,
                          raw_text       |-> raw_text,
                          agent_analysis |-> "analysis"]]

----------------------------------------------------------------------------
(* QACrew.answer_question *)

(* agent_used with the tie given to the text branch. *)
AgentUsed_TieToText(n, m) ==
    IF n >= m THEN "text_retrieval"
    ELSE IF m > 0 THEN "table_analysis"
    ELSE "combined"

AgentUsed(n, m) ==
    IF n > m THEN "text_retrieval"
    ELSE IF m > 0 THEN "table_analysis"
    ELSE "combined"

(* sources counting the items put into the prompts. *)
Sources_FedCounts(relevant_texts, relevant_tables) ==
    <<"Text chunks: " \o ToString(Min(TopTexts, Len(relevant_texts))),
      "Tables: " \o ToString(Min(TopTables, Len(relevant_tables)))>>

Sources(relevant_texts, relevant_tables) ==
    <<"Text chunks: " \o ToString(Len(relevant_texts)),
      "Tables: " \o ToString(Len(relevant_tables))>>

(* _format_text_chunks and _format_tables: the items put into the prompts *)
(* of the text and table stages.                                          *)
FormatTextChunks(text_chunks) ==
    IF text_chunks = <<>> THEN <<"No relevant text found.">>
    ELSE [i \in 1..Min(TopTexts, Len(text_chunks)) |->
            [text |-> i, from |-> text_chunks[i].filename,
             content |-> text_chunks[i].content]]

FormatTables(tables) ==
    IF tables = <<>> THEN <<"No relevant tables found.">>
    ELSE [i \in 1..Min(TopTables, Len(tables)) |->
            [table |-> i, from |-> tables[i].filename,
             description |-> tables[i].description, data |-> tables[i].data]]

(* text_outcome, table_outcome: what the two backend queries return;      *)
(* oracle_ok: whether crew.kickoff() returns.                             *)
AnswerQuestion(text_outcome, table_outcome, oracle_ok) ==
    LET text_search  == SearchText(text_outcome)
        table_search == SearchTables(table_outcome)
        relevant_texts  == text_search.value
        relevant_tables == table_search.value
        text_prompt  == FormatTextChunks(relevant_texts)
        table_prompt == FormatTables(relevant_tables)
    IN  IF text_search.raised \/ (table_search.raised)
        THEN [op |-> "ask", raised |-> TRUE, error |-> "search failed",
              text_ok |-> text_outcome.ok, table_ok |-> table_outcome.ok,
              stages_run |-> FALSE]
        ELSE IF ~oracle_ok
        THEN [op |-> "ask", raised |-> TRUE, error |-> "oracle failed",
              text_ok |-> text_outcome.ok, table_ok |-> table_outcome.ok,
              stages_run |-> TRUE]
        ELSE [op |-> "ask", raised |-> FALSE, error |-> "",
              text_ok |-> text_outcome.ok, table_ok |-> table_outcome.ok,
              stages_run |-> TRUE,
              found_texts  |-> Len(relevant_texts),
              found_tables |-> Len(relevant_tables),
              fed_texts  |-> IF relevant_texts = <<>> THEN 0 ELSE Len(text_prompt),
              fed_tables |-> IF relevant_tables = <<>> THEN 0 ELSE Len(table_prompt),
              answer     |-> "completion",
              sources    |-> Sources(relevant_texts, relevant_tables),
              agent_used |-> AgentUsed(Len(relevant_texts), Len(relevant_tables))]

----------------------------------------------------------------------------
(* The inputs the model draws. *)

SkyText == <<"T", "h", "e", " ", "s", "k", "y", " ", "i", "s", " ", "b", "l", "u", "e", ".">>
Chunk1 == <<"a", "l", "p", "h", "a">>
Chunk2 == <<"b", "e", "t", "a">>
Grid5  == <<<<"h1", "h2">>, <<"a", "b">>, <<"c", "d">>, <<"e", "f">>, <<"g", "h">>>>
Grid2  == <<<<"k", "v">>, <<"x", "1">>>>

StoreFilenames == {<<"a", "docx">>}

Table5 == ExtractedTable(0, Grid5)
TableError == [error |-> "Error extracting tables: ?"]

StoreData ==
    {[text_chunks |-> <<>>, tables |-> <<>>],
     [text_chunks |-> <<SkyText>>, tables |-> <<>>],
     [text_chunks |-> <<Chunk1, Chunk2>>, tables |-> <<Table5, TableError>>],
     [text_chunks |-> <<Chunk1, Chunk2, Chunk1>>, tables |-> <<Table5, TableError>>]}

Files ==
    {[filename |-> <<"report", "PDF">>, paragraphs |-> <<SkyText>>,
      grids |-> <<>>, readable |-> TRUE],
     [filename |-> <<"a", "docx">>, paragraphs |-> <<Chunk1, Chunk2>>,
      grids |-> <<Grid2>>, readable |-> TRUE],
     [filename |-> <<"notes", "TXT">>, paragraphs |-> <<Chunk1>>,
      grids |-> <<>>, readable |-> TRUE]}

FileLists ==
    {files \in UNION {[1..n -> Files] : n \in 1..MaxFiles} :
        \A i, j \in DOMAIN files : files[i] = files[j] => i = j}

NoUpload == [active |-> FALSE, files |-> <<>>, results |-> <<>>]
NoDelete == [pc |-> "idle", doc_id |-> 0, ids |-> {}]

----------------------------------------------------------------------------
(* The state after construction: KnowledgeBase.__init__ on an empty       *)
(* persist directory.                                                     *)

Init ==
    /\ text_collection = {}
    /\ table_collection = {}
    /\ documents = <<>>
    /\ usedIds = {}
    /\ deleted = {}
    /\ upload = NoUpload
    /\ temp_files = {}
    /\ del = NoDelete
    /\ response = [op |-> "none"]

SetKB(kb) ==
    /\ text_collection' = kb.text
    /\ table_collection' = kb.table
    /\ documents' = kb.docs

(* KnowledgeBase.store_document(filename, extracted_data) *)
Store(filename, data, fail) ==
    /\ ~upload.active
    /\ \E doc_id \in Uuid4(usedIds) :
         LET st == StoreDocument(KB, doc_id, filename, data, fail)
         IN  /\ SetKB(st.kb)
             /\ usedIds' = usedIds \cup {doc_id}
             /\ response' = [op |-> "store", raised |-> st.raised, error |-> st.error,
                             doc_id |-> doc_id, filename |-> filename]
    /\ UNCHANGED <<deleted, upload, temp_files, del>>

(* What a delete_document call came to.  Beside the error it raised, if   *)
(* any, the record keeps what the call did: the entries it removed, the   *)
(* filename of the registry entry it removed (<<>> if none), and whether  *)
(* it retries a call for the same id that has just raised.                *)
DeleteResponse(doc_id, raised, error, kb) ==
    [op |-> "delete", raised |-> raised, error |-> error, doc_id |-> doc_id,
     removed_texts  |-> Cardinality(text_collection \ kb.text),
     removed_tables |-> Cardinality(table_collection \ kb.table),
     filename |-> IF doc_id \in DOMAIN documents /\ doc_id \notin DOMAIN kb.docs
                  THEN documents[doc_id].filename ELSE <<>>,
     retry |-> /\ response.op = "delete"
               /\ response.raised
               /\ response.doc_id = doc_id]

(* KnowledgeBase.delete_document(doc_id), and the DELETE handler, which   *)
(* turns its exception into status 500 with the same message.             *)
Delete(doc_id, fail) ==
    /\ ~upload.active
    /\ del.pc = "idle"
    /\ LET dl == DeleteDocument(KB, doc_id, fail)
       IN  /\ SetKB(dl.kb)
           /\ deleted' = IF dl.raised THEN deleted ELSE deleted \cup {doc_id}
           /\ response' = DeleteResponse(doc_id, dl.raised, dl.error, dl.kb)
    /\ usedIds' = usedIds \cup {doc_id}
    /\ UNCHANGED <<upload, temp_files, del>>

(* KnowledgeBase.list_documents() *)
List ==
    /\ ~upload.active
    /\ del.pc = "idle"
    /\ response' = [op |-> "list", entries |-> ListDocuments(documents)]
    /\ UNCHANGED <<text_collection, table_collection, documents, usedIds, deleted,
                   upload, temp_files, del>>

(* QACrew.answer_question(question) *)
Ask(question, text_ok, table_ok, oracle_ok) ==
    /\ ~upload.active
    /\ del.pc = "idle"
    /\ response' = AnswerQuestion(
                     QueryOutcome(text_collection, question, TextLimit, text_ok),
                     QueryOutcome(table_collection, question, TableLimit, table_ok),
                     oracle_ok)
    /\ UNCHANGED <<text_collection, table_collection, documents, usedIds, deleted,
                   upload, temp_files, del>>

(* The process ends and starts again: the collections are persisted, the  *)
(* registry is rebuilt empty.                                             *)
Restart ==
    /\ ~upload.active
    /\ del.pc = "idle"
    /\ documents' = <<>>
    /\ response' = [op |-> "restart"]
    /\ UNCHANGED <<text_collection, table_collection, usedIds, deleted,
                   upload, temp_files, del>>

----------------------------------------------------------------------------
(* upload_documents(files).  The handler runs until its next await: the   *)
(* temporary file of a file is created before the await of its read, and  *)
(* the rest of the loop body (write, process, store, unlink) follows it.  *)

TempPath(k, file) == [n |-> k, suffix |-> file.filename[Len(file.filename)]]

UploadBegin(files) ==
    /\ ~upload.active
    /\ del.pc = "idle"
    /\ upload' = [active |-> TRUE, files |-> files, results |-> <<>>]
    /\ temp_files' = temp_files \cup {TempPath(1, files[1])}
    /\ response' = [op |-> "uploading"]
    /\ UNCHANGED <<text_collection, table_collection, documents, usedIds, deleted, del>>

UploadResult(file, doc_id, data) ==
    [filename    |-> file.filename,
     document_id |-> doc_id,
     text_chunks |-> Len(data.text_chunks),
     tables      |-> Len(data.tables)]

(* The loop body for the file at the head of upload.files, whose          *)
(* temporary file exists, up to the next await or the handler's return.   *)
(* The loop body without its finally clause: the temporary file stays. *)
UploadFailed_KeepsTemp(k, file, error, oracle_calls, oracle_ok) ==
    /\ upload' = NoUpload
    /\ temp_files' = temp_files
    /\ response' = [op |-> "upload", status |-> 500, detail |-> error,
                    filename |-> file.filename, index |-> k,
                    oracle_calls |-> oracle_calls, oracle_ok |-> oracle_ok]

UploadFailed(k, file, error, oracle_calls, oracle_ok) ==
    /\ upload' = NoUpload
    /\ temp_files' = temp_files \ {TempPath(k, file)}
    /\ response' = [op |-> "upload", status |-> 500, detail |-> error,
                    filename |-> file.filename, index |-> k,
                    oracle_calls |-> oracle_calls, oracle_ok |-> oracle_ok]

UploadFile(oracle_ok, fail) ==
    /\ upload.active
    /\ LET file == Head(upload.files)
           k    == Len(upload.results) + 1
           proc == ProcessDocument(file, oracle_ok)
       IN  IF proc.raised
           THEN /\ UploadFailed(k, file, proc.error, proc.oracle_calls,
                                proc.oracle_calls = 0 \/ oracle_ok)
                /\ UNCHANGED <<text_collection, table_collection, documents, usedIds>>
           ELSE \E doc_id \in Uuid4(usedIds) :
                  LET st == StoreDocument(KB, doc_id, file.filename, proc.data, fail)
                      results == Append(upload.results,
                                        UploadResult(file, doc_id, proc.data))
                      rest == Tail(upload.files)
                  IN  /\ SetKB(st.kb)
                      /\ usedIds' = usedIds \cup {doc_id}
                      /\ IF st.raised
                         THEN UploadFailed(k, file, st.error, proc.oracle_calls,
                                           oracle_ok)
                         ELSE IF rest = <<>>
                         THEN /\ upload' = NoUpload
                              /\ temp_files' = temp_files \ {TempPath(k, file)}
                              /\ response' = [op |-> "upload", status |-> 200,
                                              processed_documents |-> results,
                                              filename |-> file.filename,
                                              oracle_calls |-> proc.oracle_calls,
                                              oracle_ok |-> oracle_ok,
                                              agent_analysis |-> proc.data.agent_analysis]
                         ELSE /\ upload' = [active |-> TRUE, files |-> rest,
                                            results |-> results]
                              /\ temp_files' = (temp_files \ {TempPath(k, file)})
                                               \cup {TempPath(k + 1, rest[1])}
                              /\ response' = [op |-> "uploading"]
    /\ UNCHANGED <<deleted, del>>

----------------------------------------------------------------------------
(* ask_question(question), the POST /ask-question/ handler.  The body is  *)
(* a dict, a record here.  The HTTPException(400) of an empty question is *)
(* raised inside the try whose except clause catches Exception, which     *)
(* HTTPException is: the handler answers with status 500 and str(e) as    *)
(* detail.  str() of an HTTPException is "400: Ask a question" or "",     *)
(* depending on the release of the framework.                             *)

QuestionBodies ==
    {[other |-> "x"], [question |-> ""]} \cup {[question |-> q] : q \in Queries}

BodyGet(body, key, default) == IF key \in DOMAIN body THEN body[key] ELSE default

HttpExceptionStr == {"400: Ask a question", ""}

AskQuestion(body, text_ok, table_ok, oracle_ok) ==
    /\ ~upload.active
    /\ del.pc = "idle"
    /\ LET user_question == BodyGet(body, "question", "")
       IN  IF user_question = ""
           THEN \E detail \in HttpExceptionStr :
                  response' = [op |-> "ask_question", body |-> body,
                               status |-> 500, detail |-> detail,
                               searches |-> 0, stages_run |-> FALSE]
           ELSE LET answer == AnswerQuestion(
                                QueryOutcome(text_collection, user_question,
                                             TextLimit, text_ok),
                                QueryOutcome(table_collection, user_question,
                                             TableLimit, table_ok),
                                oracle_ok)
                IN  IF answer.raised
                    THEN response' = [op |-> "ask_question", body |-> body,
                                      status |-> 500, detail |-> answer.error,
                                      searches |-> 2,
                                      stages_run |-> answer.stages_run]
                    ELSE response' = [op |-> "ask_question", body |-> body,
                                      status |-> 200,
                                      question |-> user_question,
                                      answer |-> answer.answer,
                                      sources |-> answer.sources,
                                      agent_used |-> answer.agent_used,
                                      searches |-> 2,
                                      stages_run |-> answer.stages_run]
    /\ UNCHANGED <<text_collection, table_collection, documents, usedIds, deleted,
                   upload, temp_files, del>>

----------------------------------------------------------------------------
Next ==
    \/ \E filename \in StoreFilenames, data \in StoreData, fail \in StoreFailures :
         Store(filename, data, fail)
    \/ \E doc_id \in (usedIds \cup Uuid4(usedIds)), fail \in DeleteFailures :
         Delete(doc_id, fail)
    \/ List
    \/ \E question \in Queries, text_ok \in BOOLEAN, table_ok \in BOOLEAN,
          oracle_ok \in BOOLEAN :
         Ask(question, text_ok, table_ok, oracle_ok)
    \/ Restart

Spec == Init /\ [][Next]_vars

(* The server of main.py: its four endpoints, where store_document is     *)
(* reached only through an upload, and the restart of its process.        *)
NextServer ==
    \/ \E files \in FileLists : UploadBegin(files)
    \/ \E oracle_ok \in BOOLEAN, fail \in StoreFailures : UploadFile(oracle_ok, fail)
    \/ \E doc_id \in (usedIds \cup Uuid4(usedIds)), fail \in DeleteFailures :
         Delete(doc_id, fail)
    \/ List
    \/ \E body \in QuestionBodies, text_ok \in BOOLEAN, table_ok \in BOOLEAN,
          oracle_ok \in BOOLEAN :
         AskQuestion(body, text_ok, table_ok, oracle_ok)
    \/ Restart

SpecServer == Init /\ [][NextServer]_vars

----------------------------------------------------------------------------
(* delete_document and the searches as concurrent callers of the backend  *)
(* see them: delete_document is one step per backend call (and one for    *)
(* the registry), and a search, which makes a single query call, or a     *)
(* store may run between any two of them.  del.pc names the next step of  *)
(* the delete in flight.                                                  *)

DelStart(doc_id) ==
    /\ del.pc = "idle"
    /\ del' = [pc |-> "text_get", doc_id |-> doc_id, ids |-> {}]
    /\ usedIds' = usedIds \cup {doc_id}
    /\ UNCHANGED <<text_collection, table_collection, documents, deleted,
                   upload, temp_files, response>>

(* The except clause: the call ends, raising the wrapped error. *)
DelRaise ==
    /\ del' = NoDelete
    /\ response' = [op |-> "delete", raised |-> TRUE, doc_id |-> del.doc_id,
                    error |-> "Error deleting document: " \o del.pc \o " failed"]
    /\ UNCHANGED <<text_collection, table_collection, documents, usedIds, deleted,
                   upload, temp_files>>

DelTextGet(backend_ok) ==
    /\ del.pc = "text_get"
    /\ IF backend_ok
       THEN LET ids == CollectionGet(text_collection, del.doc_id)
            IN  /\ del' = [del EXCEPT !.ids = ids,
                                      !.pc = IF ids # {} THEN "text_delete"
                                             ELSE "table_get"]
                /\ UNCHANGED <<text_collection, table_collection, documents, usedIds,
                               deleted, upload, temp_files, response>>
       ELSE DelRaise

DelTextDelete(backend_ok) ==
    /\ del.pc = "text_delete"
    /\ IF backend_ok
       THEN /\ text_collection' = CollectionDelete(text_collection, del.ids)
            /\ del' = [del EXCEPT !.ids = {}, !.pc = "table_get"]
            /\ UNCHANGED <<table_collection, documents, usedIds, deleted,
                           upload, temp_files, response>>
       ELSE DelRaise

DelTableGet(backend_ok) ==
    /\ del.pc = "table_get"
    /\ IF backend_ok
       THEN LET ids == CollectionGet(table_collection, del.doc_id)
            IN  /\ del' = [del EXCEPT !.ids = ids,
                                      !.pc = IF ids # {} THEN "table_delete"
                                             ELSE "unregister"]
                /\ UNCHANGED <<text_collection, table_collection, documents, usedIds,
                               deleted, upload, temp_files, response>>
       ELSE DelRaise

DelTableDelete(backend_ok) ==
    /\ del.pc = "table_delete"
    /\ IF backend_ok
       THEN /\ table_collection' = CollectionDelete(table_collection, del.ids)
            /\ del' = [del EXCEPT !.ids = {}, !.pc = "unregister"]
            /\ UNCHANGED <<text_collection, documents, usedIds, deleted,
                           upload, temp_files, response>>
       ELSE DelRaise

DelUnregister ==
    /\ del.pc = "unregister"
    /\ documents' = [d \in DOMAIN documents \ {del.doc_id} |-> documents[d]]
    /\ deleted' = deleted \cup {del.doc_id}
    /\ del' = NoDelete
    /\ response' = [op |-> "delete", raised |-> FALSE, doc_id |-> del.doc_id,
                    error |-> ""]
    /\ UNCHANGED <<text_collection, table_collection, usedIds, upload, temp_files>>

(* KnowledgeBase.search_text(query, limit) and search_tables(query,       *)
(* limit), called while the delete is at del.pc; the callers pass the     *)
(* limits of answer_question.                                             *)
SearchTextCall(query, limit, backend_ok) ==
    /\ LET found == SearchText(QueryOutcome(text_collection, query, limit, backend_ok))
       IN  response' = [op |-> "search_text", raised |-> found.raised,
                        value |-> found.value, during |-> del.pc,
                        deleting |-> del.doc_id]
    /\ UNCHANGED <<text_collection, table_collection, documents, usedIds, deleted,
                   upload, temp_files, del>>

SearchTablesCall(query, limit, backend_ok) ==
    /\ LET found == SearchTables(QueryOutcome(table_collection, query, limit,
                                              backend_ok))
       IN  response' = [op |-> "search_tables", raised |-> found.raised,
                        value |-> found.value, during |-> del.pc,
                        deleting |-> del.doc_id]
    /\ UNCHANGED <<text_collection, table_collection, documents, usedIds, deleted,
                   upload, temp_files, del>>

NextConc ==
    \/ \E filename \in StoreFilenames, data \in StoreData, fail \in StoreFailures :
         Store(filename, data, fail)
    \/ \E doc_id \in usedIds : DelStart(doc_id)
    \/ \E backend_ok \in BOOLEAN : DelTextGet(backend_ok)
    \/ \E backend_ok \in BOOLEAN : DelTextDelete(backend_ok)
    \/ \E backend_ok \in BOOLEAN : DelTableGet(backend_ok)
    \/ \E backend_ok \in BOOLEAN : DelTableDelete(backend_ok)
    \/ DelUnregister
    \/ \E query \in Queries, backend_ok \in BOOLEAN :
         SearchTextCall(query, TextLimit, backend_ok)
    \/ \E query \in Queries, backend_ok \in BOOLEAN :
         SearchTablesCall(query, TableLimit, backend_ok)

SpecConc == Init /\ [][NextConc]_vars

----------------------------------------------------------------------------
(* DocumentProcessingCrew._chunk_text(text, chunk_size) as a function of  *)
(* its arguments: a call is drawn, then made.                             *)

ChunkAlphabet == {"a", "b", " ", "\n"}
ChunkTexts == UNION {[1..n -> ChunkAlphabet] : n \in 0..MaxTextLen}
ChunkSizes == (-1)..MaxChunkSize

InitChunk ==
    /\ text_collection = {}
    /\ table_collection = {}
    /\ documents = <<>>
    /\ usedIds = {}
    /\ deleted = {}
    /\ upload = NoUpload
    /\ temp_files = {}
    /\ del = NoDelete
    /\ response \in {[op |-> "chunk_text", text |-> text, chunk_size |-> chunk_size] :
                        text \in ChunkTexts, chunk_size \in ChunkSizes}

ChunkTextCall ==
    /\ response.op = "chunk_text"
    /\ response' = [op |-> "chunks", text |-> response.text,
                    chunk_size |-> response.chunk_size,
                    chunks |-> ChunkText(response.text, response.chunk_size)]
    /\ UNCHANGED <<text_collection, table_collection, documents, usedIds, deleted,
                   upload, temp_files, del>>

NextChunk == ChunkTextCall

SpecChunk == InitChunk /\ [][NextChunk]_vars

----------------------------------------------------------------------------
(* KnowledgeBase._table_to_text(table) as a function of its argument: a   *)
(* call is drawn, then made.                                              *)

TableRows == {<<>>, <<"x">>, <<"a", "b">>, <<"h1", "h2">>}
TableGrids == UNION {[1..r -> TableRows] : r \in 0..MaxRows}
RenderedTables ==
    {ExtractedTable(0, grid) : grid \in TableGrids \cup {Grid5}}
    \cup {TableError, [error |-> "unreadable", data |-> Grid2], [table_id |-> 0]}

InitTable ==
    /\ text_collection = {}
    /\ table_collection = {}
    /\ documents = <<>>
    /\ usedIds = {}
    /\ deleted = {}
    /\ upload = NoUpload
    /\ temp_files = {}
    /\ del = NoDelete
    /\ response \in {[op |-> "table_to_text", table |-> table] :
                        table \in RenderedTables}

TableToTextCall ==
    /\ response.op = "table_to_text"
    /\ response' = [op |-> "table_text", table |-> response.table,
                    text |-> TableToText(response.table)]
    /\ UNCHANGED <<text_collection, table_collection, documents, usedIds, deleted,
                   upload, temp_files, del>>

NextTable == TableToTextCall

SpecTable == InitTable /\ [][NextTable]_vars

----------------------------------------------------------------------------
(* Properties. *)

(* The document id behind each result of a search: search results do not  *)
(* carry it, the entries the query returned do.                           *)
TextSearchIds(query, limit, backend_ok) ==
    LET outcome == QueryOutcome(text_collection, query, limit, backend_ok)
        found   == SearchText(outcome).value
    IN  {outcome.hits[i].metadata.document_id : i \in 1..Len(found)}

TableSearchIds(query, limit, backend_ok) ==
    LET outcome == QueryOutcome(table_collection, query, limit, backend_ok)
        found   == SearchTables(outcome).value
    IN  {outcome.hits[i].metadata.document_id : i \in 1..Len(found)}

AnyLimit == 1..(TextLimit + 1)

(* C1: once delete_document(id) has returned without error, no search_text *)
(* or search_tables call, for any query and limit, returns an entry stored *)
(* under id, and list_documents() has no entry for id; whatever stores and *)
(* deletes came before or come after.                                      *)
C1_DeletedIsGone ==
    \A id \in deleted :
        /\ \A query \in Queries, limit \in AnyLimit, backend_ok \in BOOLEAN :
              /\ id \notin TextSearchIds(query, limit, backend_ok)
              /\ id \notin TableSearchIds(query, limit, backend_ok)
        /\ id \notin DOMAIN documents
        /\ LET listed == ListDocuments(documents)
           IN  /\ Len(listed) = Cardinality(DOMAIN documents \ {id})
               /\ \A i \in 1..Len(listed) :
                     \E d \in DOMAIN documents \ {id} : listed[i] = documents[d]

(* A delete has returned normally after removing chunks, tables and the   *)
(* registry entry of its document, and another document is still stored.  *)
C1_Witness ==
    /\ response.op = "delete"
    /\ ~response.raised
    /\ response.removed_texts > 0
    /\ response.removed_tables > 0
    /\ response.filename # <<>>
    /\ response.doc_id \in deleted
    /\ text_collection # {}
    /\ table_collection # {}
    /\ documents # <<>>

(* C2: every entry of the text collection and of the table collection    *)
(* carries the document_id of a document that is in the registry: there   *)
(* are no orphan entries, whatever backend call failed and whether or not *)
(* the process was restarted.                                             *)
C2_NoOrphans ==
    \A e \in text_collection \cup table_collection :
        e.metadata.document_id \in DOMAIN documents

EntriesOf(coll, doc_id) == {e \in coll : e.metadata.document_id = doc_id}

(* C3: a store_document call returns an id that no document and no entry  *)
(* has, so two calls with the same filename return distinct ids; and a    *)
(* delete_document call, failed or not, leaves the registry entry and     *)
(* every text and table entry of every other document as they were.       *)
C3_Step ==
    /\ (response'.op = "store" /\ ~response'.raised) =>
          /\ response'.doc_id \notin DOMAIN documents
          /\ EntriesOf(text_collection \cup table_collection, response'.doc_id) = {}
          /\ response'.doc_id \in DOMAIN documents'
    /\ response'.op = "delete" =>
          \A d \in Ids \ {response'.doc_id} :
              /\ EntriesOf(text_collection', d) = EntriesOf(text_collection, d)
              /\ EntriesOf(table_collection', d) = EntriesOf(table_collection, d)
              /\ d \in DOMAIN documents =>
                    d \in DOMAIN documents' /\ documents'[d] = documents[d]
              /\ d \in DOMAIN documents' => d \in DOMAIN documents

C3_DeleteIsolated == [][C3_Step]_vars

(* One of two stored documents of the same filename has been deleted, and *)
(* the other is registered with its chunks and its tables.                *)
C3_Witness ==
    /\ response.op = "delete"
    /\ ~response.raised
    /\ response.removed_texts > 0
    /\ response.removed_tables > 0
    /\ \E d \in DOMAIN documents :
          /\ d # response.doc_id
          /\ documents[d].filename = response.filename
          /\ EntriesOf(text_collection, d) # {}
          /\ EntriesOf(table_collection, d) # {}

(* C4: when the reasoning oracle fails during the ingestion of a pdf or    *)
(* docx file, the upload still succeeds: the file is processed and stored. *)
C4_AdvisoryFailureTolerated ==
    (response.op = "upload" /\ ~response.oracle_ok) => response.status = 200

(* C5: search_text and search_tables never raise, and return the empty    *)
(* sequence when the backend query fails; answer_question therefore runs  *)
(* its reasoning stages whatever the backend does, fails only when the    *)
(* oracle does, and counts a failed retrieval as 0 results.               *)
C5_SearchNeverRaises ==
    /\ \A query \in Queries, limit \in AnyLimit, backend_ok \in BOOLEAN :
          LET texts  == SearchText(QueryOutcome(text_collection, query, limit,
                                                backend_ok))
              tables == SearchTables(QueryOutcome(table_collection, query, limit,
                                                  backend_ok))
          IN  /\ ~texts.raised
              /\ ~tables.raised
              /\ ~backend_ok => texts.value = <<>> /\ tables.value = <<>>
    /\ response.op = "ask" =>
          /\ response.stages_run
          /\ response.raised => response.error = "oracle failed"
          /\ ~response.raised =>
                /\ ~response.text_ok => response.found_texts = 0
                /\ ~response.table_ok => response.found_tables = 0

(* A question has been answered although the text query failed over a     *)
(* non-empty text collection; the table query returned tables.            *)
C5_Witness ==
    /\ response.op = "ask"
    /\ ~response.raised
    /\ ~response.text_ok
    /\ response.table_ok
    /\ text_collection # {}
    /\ response.found_texts = 0
    /\ response.found_tables > 0

(* C6: the loop body of upload_documents for a file whose extension, the  *)
(* lower-cased text after the last '.', is neither pdf nor docx ends the  *)
(* request with an error that names the extension, without a call of the  *)
(* oracle, and leaves the registry and both collections as they were.     *)
C6_Step ==
    (/\ upload.active
     /\ upload' # upload
     /\ FileExtension(Head(upload.files).filename) \notin {"pdf", "docx"}) =>
        /\ response'.op = "upload"
        /\ response'.status = 500
        /\ response'.detail = "Unsupported file format: "
                                \o FileExtension(Head(upload.files).filename)
        /\ Head(upload.files).filename = <<"notes", "TXT">> =>
              response'.detail = "Unsupported file format: txt"
        /\ response'.oracle_calls = 0
        /\ UNCHANGED <<text_collection, table_collection, documents>>

C6_UnsupportedFormat == [][C6_Step]_vars

(* An upload has failed on notes.TXT while documents are stored. *)
C6_Witness ==
    /\ response.op = "upload"
    /\ response.status = 500
    /\ response.filename = <<"notes", "TXT">>
    /\ response.detail = "Unsupported file format: txt"
    /\ response.oracle_calls = 0
    /\ documents # <<>>
    /\ text_collection # {}

DeleteCauses == {f \o " failed" : f \in DeleteFailures \ {"none"}}

(* C7: a delete_document(id) call in which a backend call fails raises an *)
(* error that wraps the cause and leaves the registry as it was; a call   *)
(* whose backend calls all succeed, a retry after such a failure          *)
(* included, leaves no entry of id in either collection and no registry   *)
(* entry for id.                                                          *)
C7_Step ==
    response'.op = "delete" =>
        /\ response'.raised =>
              /\ documents' = documents
              /\ \E cause \in DeleteCauses :
                    response'.error = "Error deleting document: " \o cause
        /\ ~response'.raised =>
              /\ EntriesOf(text_collection', response'.doc_id) = {}
              /\ EntriesOf(table_collection', response'.doc_id) = {}
              /\ response'.doc_id \notin DOMAIN documents'

C7_DeleteFailureAndRetry == [][C7_Step]_vars

(* A delete that retries one that has just failed has removed the tables  *)
(* and the registry entry the failed call left behind.                    *)
C7_Witness ==
    /\ response.op = "delete"
    /\ ~response.raised
    /\ response.retry
    /\ response.removed_tables > 0
    /\ response.filename # <<>>
    /\ EntriesOf(text_collection \cup table_collection, response.doc_id) = {}

(* C8: a search_text or search_tables call made at any point of a         *)
(* delete_document call in flight returns without raising, and each entry *)
(* it returns has exactly the fields of a result and the content,         *)
(* filename, index and table data that one store_document call wrote.     *)
C8_SearchDuringDelete ==
    /\ response.op = "search_text" =>
          /\ ~response.raised
          /\ \A i \in 1..Len(response.value) :
                /\ DOMAIN response.value[i]
                     = {"content", "filename", "chunk_index", "score"}
                /\ \E f \in StoreFilenames, d \in StoreData :
                   \E k \in 1..Len(d.text_chunks) :
                      response.value[i] = [content     |-> d.text_chunks[k],
                                           filename    |-> f,
                                           chunk_index |-> k - 1,
                                           score       |-> i]
    /\ response.op = "search_tables" =>
          /\ ~response.raised
          /\ \A i \in 1..Len(response.value) :
                /\ DOMAIN response.value[i]
                     = {"description", "filename", "table_index", "data", "score"}
                /\ \E f \in StoreFilenames, d \in StoreData :
                   \E k \in 1..Len(d.tables) :
                      response.value[i] = [description |-> TableToText(d.tables[k]),
                                           filename    |-> f,
                                           table_index |-> k - 1,
                                           data        |-> d.tables[k],
                                           score       |-> i]

(* A search_tables call made between the text delete and the table delete *)
(* of the only stored document has returned that document's tables.       *)
C8_Witness ==
    /\ response.op = "search_tables"
    /\ response.during = "table_delete"
    /\ Len(response.value) > 0
    /\ del.pc = "table_delete"
    /\ del.doc_id = response.deleting
    /\ text_collection = {}
    /\ \A e \in table_collection : e.metadata.document_id = del.doc_id

TextLabels == <<"Text chunks: 0", "Text chunks: 1", "Text chunks: 2",
                "Text chunks: 3", "Text chunks: 4", "Text chunks: 5">>
TableLabels == <<"Tables: 0", "Tables: 1", "Tables: 2", "Tables: 3">>

(* The number of results a query with this limit returns. *)
Retrieved(coll, limit, backend_ok) ==
    IF backend_ok THEN Min(limit, Cardinality(coll)) ELSE 0

(* C9: an answer's agent_used is decided by n, the number of text         *)
(* results (0..5), and m, the number of table results (0..3), of its two  *)
(* searches: text_retrieval if n > m, else table_analysis if m > 0, else  *)
(* combined, which is returned exactly when n = 0 and m = 0.              *)
C9_AgentUsed ==
    (response.op = "ask" /\ ~response.raised) =>
        LET n == response.found_texts
            m == response.found_tables
        IN  /\ n = Retrieved(text_collection, 5, response.text_ok)
            /\ m = Retrieved(table_collection, 3, response.table_ok)
            /\ n \in 0..5 /\ m \in 0..3
            /\ n > m => response.agent_used = "text_retrieval"
            /\ (n <= m /\ m > 0) => response.agent_used = "table_analysis"
            /\ response.agent_used = "combined" <=> (n = 0 /\ m = 0)

(* An answer over two text results and two table results: the tie. *)
C9_Witness ==
    /\ response.op = "ask"
    /\ ~response.raised
    /\ response.found_texts = 2
    /\ response.found_tables = 2
    /\ response.agent_used = "table_analysis"

(* C10: an answer's sources are the two strings "Text chunks: n" and      *)
(* "Tables: m", in this order, n and m being the numbers of results of    *)
(* search_text(question, 5) and search_tables(question, 3), not the       *)
(* numbers of items put into the prompts; over a store of one one-chunk   *)
(* document without tables, both queries succeeding, they are             *)
(* "Text chunks: 1" and "Tables: 0".                                      *)
C10_Sources ==
    (response.op = "ask" /\ ~response.raised) =>
        LET n == Retrieved(text_collection, 5, response.text_ok)
            m == Retrieved(table_collection, 3, response.table_ok)
        IN  /\ Len(response.sources) = 2
            /\ response.sources = <<TextLabels[n + 1], TableLabels[m + 1]>>
            /\ response.fed_texts = Min(3, n)
            /\ response.fed_tables = Min(2, m)
            /\ (/\ Cardinality(text_collection) = 1
                 /\ table_collection = {}
                 /\ Cardinality(DOMAIN documents) = 1
                 /\ response.text_ok) =>
                  response.sources = <<"Text chunks: 1", "Tables: 0">>

(* An answer over 5 text results and 3 table results, of which 3 and 2    *)
(* went into the prompts.                                                 *)
C10_Witness ==
    /\ response.op = "ask"
    /\ ~response.raised
    /\ response.sources = <<"Text chunks: 5", "Tables: 3">>
    /\ response.fed_texts = 3
    /\ response.fed_tables = 2
    /\ Cardinality(text_collection) > 5

(* An answer over a store of one one-chunk document without tables. *)
C10_WitnessSky ==
    /\ response.op = "ask"
    /\ ~response.raised
    /\ Cardinality(text_collection) = 1
    /\ table_collection = {}
    /\ response.sources = <<"Text chunks: 1", "Tables: 0">>
    /\ response.agent_used = "text_retrieval"

(* C11: list_documents() returns one entry per document in the registry,  *)
(* and each entry carries the id of its document, the id store_document   *)
(* returned, so that the caller can pass it to delete_document.           *)
C11_ListCarriesIds ==
    response.op = "list" =>
        /\ Len(response.entries) = Cardinality(DOMAIN documents)
        /\ \A i \in 1..Len(response.entries) :
              /\ "id" \in DOMAIN response.entries[i]
              /\ response.entries[i].id \in DOMAIN documents
        /\ \A d \in DOMAIN documents :
              \E i \in 1..Len(response.entries) :
                 "id" \in DOMAIN response.entries[i] /\ response.entries[i].id = d

(* C12: a delete_document(id) call whose backend calls succeed, on an id  *)
(* that is unknown, already deleted or present in only some of the text   *)
(* collection, the table collection and the registry, returns without an  *)
(* error, leaves nothing of id and leaves everything else as it was; a    *)
(* second such call changes nothing.                                      *)
C12_Step ==
    \A id \in Ids :
        Delete(id, "none") =>
            /\ ~response'.raised
            /\ text_collection' = text_collection \ EntriesOf(text_collection, id)
            /\ table_collection' = table_collection \ EntriesOf(table_collection, id)
            /\ DOMAIN documents' = DOMAIN documents \ {id}
            /\ \A d \in DOMAIN documents' : documents'[d] = documents[d]
            /\ LET once  == [text  |-> text_collection',
                             table |-> table_collection',
                             docs  |-> documents']
                   again == DeleteDocument(once, id, "none")
               IN  ~again.raised /\ again.kb = once

C12_DeleteIdempotent == [][C12_Step]_vars

(* A delete has returned normally for an id that had chunks in the text   *)
(* collection only: no tables and no registry entry.                      *)
C12_Witness ==
    /\ response.op = "delete"
    /\ ~response.raised
    /\ response.removed_texts > 0
    /\ response.removed_tables = 0
    /\ response.filename = <<>>
    /\ EntriesOf(text_collection \cup table_collection, response.doc_id) = {}

(* str.split(" "): the pieces between single spaces, empty ones included. *)
RECURSIVE SplitOnSpace(_, _)
SplitOnSpace(s, cur) ==
    IF s = <<>> THEN <<cur>>
    ELSE IF Head(s) = " "
         THEN <<cur>> \o SplitOnSpace(Tail(s), <<>>)
         ELSE SplitOnSpace(Tail(s), Append(cur, Head(s)))

RECURSIVE WordsOfChunks(_)
WordsOfChunks(chunks) ==
    IF chunks = <<>> THEN <<>>
    ELSE SplitOnSpace(Head(chunks), <<>>) \o WordsOfChunks(Tail(chunks))

(* C13: the chunks of _chunk_text(text, size), each split on single       *)
(* spaces and the pieces concatenated in chunk order, are the words of    *)
(* text, the maximal runs without whitespace, in their order; no chunk is *)
(* empty.                                                                 *)
C13_ChunksKeepWords ==
    response.op = "chunks" =>
        /\ WordsOfChunks(response.chunks) = Split(response.text)
        /\ \A i \in 1..Len(response.chunks) : response.chunks[i] # <<>>
        /\ \A w \in 1..Len(Split(response.text)) :
              /\ Split(response.text)[w] # <<>>
              /\ \A k \in 1..Len(Split(response.text)[w]) :
                    ~IsSpace(Split(response.text)[w][k])

(* A text of three words between runs of mixed whitespace has been cut    *)
(* into two chunks.                                                       *)
C13_Witness ==
    /\ response.op = "chunks"
    /\ response.text = <<"a", " ", "\n", "b", "a">>
    /\ response.chunk_size = 2
    /\ response.chunks = <<<<"a">>, <<"b", "a">>>>

(* C14 as stated: every chunk but the last is at least chunk_size         *)
(* characters long, unless it holds exactly one word.                     *)
C14_LengthAtLeastSize ==
    response.op = "chunks" =>
        \A i \in 1..(Len(response.chunks) - 1) :
            \/ Len(response.chunks[i]) >= response.chunk_size
            \/ Len(SplitOnSpace(response.chunks[i], <<>>)) = 1

(* C14, amended: every chunk but the last is at least chunk_size - 1      *)
(* characters long: its length plus one, the sum of its word lengths plus *)
(* one separator per word, reaches chunk_size.                            *)
C14_LengthAtLeastSizeLessOne ==
    response.op = "chunks" =>
        \A i \in 1..(Len(response.chunks) - 1) :
            Len(response.chunks[i]) + 1 >= response.chunk_size

(* "a b a" cut at size 4: the first chunk, "a b", has two words and three *)
(* characters.                                                            *)
C14_Witness ==
    /\ response.op = "chunks"
    /\ response.text = <<"a", " ", "b", " ", "a">>
    /\ response.chunk_size = 4
    /\ response.chunks = <<<<"a", " ", "b">>, <<"a">>>>

(* C15: _table_to_text renders a table with an error key as that error    *)
(* string; a table without one and with r >= 1 rows as 1 + min(3, r - 1)  *)
(* lines joined by newlines, "Table headers: " and the cells of row 1     *)
(* joined by " | ", then rows 2..min(4, r), each joined by " | "; and a   *)
(* table without rows as the empty string.                                *)
C15_TableRendering ==
    response.op = "table_text" =>
        LET table == response.table
        IN  IF "error" \in DOMAIN table
            THEN response.text = table.error
            ELSE IF "data" \notin DOMAIN table \/ table.data = <<>>
            THEN response.text = ""
            ELSE LET r == Len(table.data)
                     n == 1 + (IF r - 1 < 3 THEN r - 1 ELSE 3)
                     lines == [i \in 1..n |->
                                 IF i = 1
                                 THEN "Table headers: " \o JoinStr(table.data[1], " | ")
                                 ELSE JoinStr(table.data[i], " | ")]
                 IN  /\ response.text = JoinStr(lines, "\n")
                     /\ table.data = Grid5 =>
                           response.text = "Table headers: h1 | h2\na | b\nc | d\ne | f"

(* The five-row table of the spec's example has been rendered without its *)
(* fifth row.                                                             *)
C15_Witness ==
    /\ response.op = "table_text"
    /\ DOMAIN response.table = {"table_id", "data", "rows", "columns"}
    /\ response.table.data
         = <<<<"h1", "h2">>, <<"a", "b">>, <<"c", "d">>, <<"e", "f">>, <<"g", "h">>>>
    /\ response.text = "Table headers: h1 | h2\na | b\nc | d\ne | f"

(* C16: an ask-question request whose body has no "question" field or an  *)
(* empty one is answered with status 400 and detail "Ask a question", and  *)
(* neither a search nor a reasoning stage is run for it.                   *)
C16_EmptyQuestionRejected ==
    (/\ response.op = "ask_question"
     /\ BodyGet(response.body, "question", "") = "") =>
        /\ response.status = 400
        /\ response.detail = "Ask a question"
        /\ response.searches = 0
        /\ ~response.stages_run

(* C17: upload_documents takes its files one at a time in request order,  *)
(* with the temporary copy of the current file the only one on disk.  If  *)
(* processing or storing file k fails, the request ends with status 500   *)
(* and no per-file results, the files before k are in the registry with   *)
(* their chunks and tables, no later file is processed or stored, and no  *)
(* temporary copy is left.                                                *)
C17_Step ==
    (upload.active /\ upload' # upload) =>
        LET k    == Len(upload.results) + 1
            file == Head(upload.files)
        IN  /\ temp_files = {TempPath(k, file)}
            /\ Cardinality(usedIds' \ usedIds) <= 1
            /\ IF upload'.active
               THEN /\ upload'.files = Tail(upload.files)
                    /\ Len(upload'.results) = k
                    /\ \A i \in 1..(k - 1) : upload'.results[i] = upload.results[i]
                    /\ upload'.results[k].filename = file.filename
                    /\ upload'.results[k].document_id \in DOMAIN documents'
                    /\ temp_files' = {TempPath(k + 1, upload'.files[1])}
               ELSE /\ temp_files' = {}
                    /\ response'.op = "upload"
                    /\ response'.status = 200 =>
                          /\ upload.files = <<file>>
                          /\ Len(response'.processed_documents) = k
                    /\ response'.status = 500 =>
                          /\ response'.index = k
                          /\ "processed_documents" \notin DOMAIN response'
                          /\ DOMAIN documents' = DOMAIN documents
                          /\ \A i \in 1..(k - 1) :
                                LET r == upload.results[i]
                                IN  /\ r.document_id \in DOMAIN documents'
                                    /\ documents'[r.document_id].filename = r.filename
                                    /\ Cardinality(EntriesOf(text_collection',
                                                             r.document_id))
                                         = r.text_chunks
                                    /\ Cardinality(EntriesOf(table_collection',
                                                             r.document_id))
                                         = r.tables

C17_UploadInOrder == [][C17_Step]_vars

(* An upload has failed in storing its second file, after the oracle      *)
(* call: the first file, report.PDF, is in the registry, and no temporary *)
(* file is left.                                                          *)
C17_Witness ==
    /\ response.op = "upload"
    /\ response.status = 500
    /\ response.index = 2
    /\ response.oracle_calls = 1
    /\ response.oracle_ok
    /\ temp_files = {}
    /\ \E d \in DOMAIN documents : documents[d].filename = <<"report", "PDF">>

====
